---- MODULE Spec2Model ----
(***************************************************************************)
(* Model of jobs/job_utils.py: the helpers that move NDB models and NDB    *)
(* queries to their Apache Beam representation, and the in-memory          *)
(* evaluator apply_query_to_models.                                        *)
(*                                                                         *)
(* Python values are encoded as follows.                                   *)
(*   None          the empty tuple <<>> ("None" below)                     *)
(*   any value v   the one-element tuple <<v>> ("Some(v)") wherever the     *)
(*                 code may also see None (kind, namespace, filters,       *)
(*                 order, limit)                                           *)
(*   a tuple/list  a sequence                                              *)
(*   a Key         [namespace |-> str, pairs |-> <<<<kind, id>>, ...>>]    *)
(*   a Model       [key |-> Key, score |-> int]; its class is the kind of  *)
(*                 the last pair of its key, as NDB enforces               *)
(***************************************************************************)
EXTENDS Integers, Sequences, FiniteSets, TLC

VARIABLES
    pc,            \* position of the caller: which call comes next
    query,         \* the beam_datastore_types.Query (Some(record)) or None
    model_list,    \* the caller's list, mutated in place by apply_query_to_models
    input_list,    \* model_list as it was when the caller built it
    outcome,       \* how the last call ended: "none", "ok" or the exception
    ndb_query,     \* the datastore_services.Query handed to the converter
    model,         \* the NDB model handed to get_beam_entity_from_model
    beam_entity,   \* the beam_datastore_types.Entity built from it
    new_model      \* the model get_model_from_beam_entity returns

vars == <<pc, query, model_list, input_list, outcome, ndb_query, model,
          beam_entity, new_model>>

-----------------------------------------------------------------------------
(* Bounds of the model. *)

MaxLen == 2        \* longest model_list of the filter, limit and converter runs
MaxSortLen == 3    \* longest model_list of the sort runs
MaxFilters == 2    \* most filters of one query
MaxOrder == 2      \* most keys of one order
MaxLimit == 2      \* largest limit

-----------------------------------------------------------------------------
(* Python values. *)

None == <<>>
Some(v) == <<v>>
Val(o) == o[1]

\* bool(o) for an optional string, tuple or int: None, '', () and 0 are falsy.
TruthyStr(o) == o # None /\ Val(o) # ""
TruthySeq(o) == o # None /\ Val(o) # <<>>
TruthyInt(o) == o # None /\ Val(o) # 0

Last(s) == s[Len(s)]

RECURSIVE Reverse(_)
Reverse(s) == IF s = <<>> THEN <<>> ELSE Append(Reverse(Tail(s)), Head(s))

\* Python's ordering of the str values the model uses.
StrRank(s) ==
    CASE s = "" -> 0
      [] s = "A" -> 1
      [] s = "B" -> 2
      [] s = "id" -> 3
      [] s = "ns" -> 4
      [] s = "score" -> 5
      [] OTHER -> 6

StrLt(a, b) == StrRank(a) < StrRank(b)

\* (kind, id) pairs compare as Python tuples do.
PairLt(p, q) == StrLt(p[1], q[1]) \/ (p[1] = q[1] /\ p[2] < q[2])

RECURSIVE PairsLt(_, _)
PairsLt(s, t) ==
    IF t = <<>> THEN FALSE
    ELSE IF s = <<>> THEN TRUE
    ELSE IF Head(s) = Head(t) THEN PairsLt(Tail(s), Tail(t))
    ELSE PairLt(Head(s), Head(t))

\* ndb.Key orders by (app, namespace, pairs); the app is the same everywhere.
KeyLt(k1, k2) ==
    \/ StrLt(k1.namespace, k2.namespace)
    \/ (k1.namespace = k2.namespace /\ PairsLt(k1.pairs, k2.pairs))

\* a < b for two values of the same property: keys for '__key__', ints else.
ValueLt(property_name, a, b) ==
    IF property_name = "__key__" THEN KeyLt(a, b) ELSE a < b

-----------------------------------------------------------------------------
(* Entity accessors. *)

get_model_key(m) == m.key

get_model_kind(m) == Last(m.key.pairs)[1]

get_model_id(m) == Last(m.key.pairs)[2]

get_model_property(m, property_name) ==
    IF property_name = "id" THEN get_model_id(m)
    ELSE IF property_name = "__key__" THEN get_model_key(m)
    ELSE m[property_name]

-----------------------------------------------------------------------------
(* The query evaluator. *)

SupportedOperators == {"<", "<=", "=", ">=", ">"}

\* _get_operator(comp_str): the operator, or "ValueError" when unsupported.
_get_operator(comp_str) ==
    IF comp_str = "<" THEN "lt"
    ELSE IF comp_str = "<=" THEN "le"
    ELSE IF comp_str = "=" THEN "eq"
    ELSE IF comp_str = ">=" THEN "ge"
    ELSE IF comp_str = ">" THEN "gt"
    ELSE "ValueError"

\* Operators whose '<=' and '>=' leave out equality.
CallOperatorStrict(op, property_name, a, b) ==
    CASE op = "lt" -> ValueLt(property_name, a, b)
      [] op = "le" -> ValueLt(property_name, a, b)
      [] op = "eq" -> a = b
      [] op = "ge" -> ValueLt(property_name, b, a)
      [] op = "gt" -> ValueLt(property_name, b, a)

\* operator.lt, .le, .eq, .ge, .gt applied to (a, b).
CallOperator(op, property_name, a, b) ==
    CASE op = "lt" -> ValueLt(property_name, a, b)
      [] op = "le" -> ValueLt(property_name, a, b) \/ a = b
      [] op = "eq" -> a = b
      [] op = "ge" -> ValueLt(property_name, b, a) \/ a = b
      [] op = "gt" -> ValueLt(property_name, b, a)

\* all(_get_operator(comp)(get_model_property(m, name), value)
\*     for name, comp, value in filters): the generator is consumed from the
\* left and all() stops at the first False; "raise" when _get_operator raises.
RECURSIVE AllFilters(_, _)
AllFilters(m, filters) ==
    IF filters = <<>> THEN "True"
    ELSE LET name == Head(filters)[1]
             comp == Head(filters)[2]
             value == Head(filters)[3]
             op == _get_operator(comp)
         IN  IF op = "ValueError" THEN "raise"
             ELSE IF CallOperator(op, name, get_model_property(m, name), value)
                  THEN AllFilters(m, Tail(filters))
                  ELSE "False"

\* The list comprehension of the predicate stage, built element by element:
\* [raised |-> TRUE] when an element raises, else the new list.
RECURSIVE FilterComprehension(_, _, _)
FilterComprehension(models, filters, acc) ==
    IF models = <<>> THEN [raised |-> FALSE, list |-> acc]
    ELSE LET r == AllFilters(Head(models), filters)
         IN  IF r = "raise" THEN [raised |-> TRUE, list |-> acc]
             ELSE FilterComprehension(
                      Tail(models), filters,
                      IF r = "True" THEN Append(acc, Head(models)) ELSE acc)

\* True when x sorts strictly before y on property_name in the given direction.
SortsBefore(x, y, property_name, reverse) ==
    LET kx == get_model_property(x, property_name)
        ky == get_model_property(y, property_name)
    IN  IF reverse THEN ValueLt(property_name, ky, kx)
        ELSE ValueLt(property_name, kx, ky)

\* x put into the sorted list s behind every element it does not sort before.
RECURSIVE InsertStable(_, _, _, _)
InsertStable(s, x, property_name, reverse) ==
    IF s = <<>> THEN <<x>>
    ELSE IF SortsBefore(x, Last(s), property_name, reverse)
         THEN Append(InsertStable(SubSeq(s, 1, Len(s) - 1), x,
                                  property_name, reverse), Last(s))
         ELSE Append(s, x)

\* list.sort(key=..., reverse=...): stable, and reverse=True keeps the
\* original order of elements with equal keys.
RECURSIVE ListSort(_, _, _)
ListSort(models, property_name, reverse) ==
    IF models = <<>> THEN <<>>
    ELSE InsertStable(
             ListSort(SubSeq(models, 1, Len(models) - 1), property_name, reverse),
             Last(models), property_name, reverse)

StartsWithDash(order) ==
    order \in {"-id", "-score", "-__key__"}

StripDash(order) ==
    CASE order = "-id" -> "id"
      [] order = "-score" -> "score"
      [] order = "-__key__" -> "__key__"
      [] OTHER -> order

\* A sort that gets descending order by reversing an ascending sort.
SortByReversing(models, order) ==
    IF StartsWithDash(order)
    THEN Reverse(ListSort(models, StripDash(order), FALSE))
    ELSE ListSort(models, order, FALSE)

_sort_by_property_name(models, order) ==
    IF StartsWithDash(order)
    THEN ListSort(models, StripDash(order), TRUE)
    ELSE ListSort(models, order, FALSE)

\* for order in reversed(query.order): _sort_by_property_name(model_list, order)
RECURSIVE SortStage(_, _)
SortStage(models, order) ==
    IF order = <<>> THEN models
    ELSE _sort_by_property_name(SortStage(models, Tail(order)), Head(order))

\* del model_list[limit:]
DelFrom(models, limit) ==
    LET keep == IF limit >= 0 THEN limit ELSE Len(models) + limit
    IN  IF keep >= Len(models) THEN models
        ELSE IF keep <= 0 THEN <<>>
        ELSE SubSeq(models, 1, keep)

KindStage(q, models) ==
    IF TruthyStr(q.kind)
    THEN SelectSeq(models, LAMBDA m : get_model_kind(m) = Val(q.kind))
    ELSE models

NamespaceStage(q, models) ==
    IF TruthyStr(q.namespace)
    THEN SelectSeq(models, LAMBDA m : m.key.namespace = Val(q.namespace))
    ELSE models

LimitStage(q, models) ==
    IF TruthyInt(q.limit) THEN DelFrom(models, Val(q.limit)) ELSE models

\* A validation that only asks a kind-less query for some order.
KindlessWithoutOrder(q) ==
    q.kind = None /\ ~TruthySeq(q.order)

\* query.kind is None and query.order != ('__key__',)
InvalidCombination(q) ==
    q.kind = None /\ q.order # Some(<<"__key__">>)

\* A predicate stage that leaves the models it had accepted when it raised.
PredicateStagePartial(q, models) ==
    IF TruthySeq(q.filters)
    THEN FilterComprehension(models, Val(q.filters), <<>>)
    ELSE [raised |-> FALSE, list |-> models]

\* model_list[:] = [m for m in model_list if all(...)]: the slice is assigned
\* once the comprehension is complete, so a raise leaves the list as it was.
PredicateStage(q, models) ==
    LET comp == IF TruthySeq(q.filters)
                THEN FilterComprehension(models, Val(q.filters), <<>>)
                ELSE [raised |-> FALSE, list |-> models]
    IN  IF comp.raised THEN [raised |-> TRUE, list |-> models] ELSE comp

OrderStage(q, models) ==
    IF TruthySeq(q.order) THEN SortStage(models, Val(q.order)) ELSE models

\* The whole of apply_query_to_models(q, models): the exception or "ok", and
\* the list the caller holds afterwards.
ApplyResult(q, models) ==
    IF InvalidCombination(q)
    THEN [outcome |-> "ValueError: Query(kind=None) must also have order",
          list |-> models]
    ELSE LET comp == PredicateStage(q, NamespaceStage(q, KindStage(q, models)))
         IN  IF comp.raised
             THEN [outcome |-> "ValueError: Unsupported comparison operator",
                   list |-> comp.list]
             ELSE [outcome |-> "ok",
                   list |-> LimitStage(q, OrderStage(q, comp.list))]

-----------------------------------------------------------------------------
(* The query converter. *)

\* datastore_query.PropertyFilter._OPERATORS: the op code a filter's protocol
\* buffer carries for each op symbol of an ndb FilterNode.
PbOp(opsymbol) ==
    CASE opsymbol = "<" -> 1
      [] opsymbol = "<=" -> 2
      [] opsymbol = ">" -> 3
      [] opsymbol = ">=" -> 4
      [] opsymbol = "=" -> 5

\* datastore_query.PropertyFilter._OPERATORS_INVERSE[pb.op()]
OperatorsInverse(op) ==
    CASE op = 1 -> "<"
      [] op = 2 -> "<="
      [] op = 3 -> ">"
      [] op = 4 -> ">="
      [] op = 5 -> "="

\* node._to_filter()._to_pbs(): one protocol buffer per comparison.
ToPb(comparison) ==
    [name |-> comparison.name, op |-> PbOp(comparison.opsymbol),
     value |-> comparison.value]

RECURSIVE BeamFiltersFromPbs(_)
BeamFiltersFromPbs(nodes) ==
    IF nodes = <<>> THEN <<>>
    ELSE LET pb == ToPb(Head(nodes))
         IN  <<<<pb.name, OperatorsInverse(pb.op), pb.value>>>>
                 \o BeamFiltersFromPbs(Tail(nodes))

\* A converter that takes every node for a conjunction of its comparisons.
FiltersOfAnyNode(filter_node) ==
    [raised |-> FALSE, filters |-> BeamFiltersFromPbs(filter_node.nodes)]

\* _get_beam_filters_from_ndb_filter_node: the triples, or the TypeError.
_get_beam_filters_from_ndb_filter_node(filter_node) ==
    IF filter_node.type = "ConjunctionNode"
    THEN [raised |-> FALSE, filters |-> BeamFiltersFromPbs(filter_node.nodes)]
    ELSE IF filter_node.type = "FilterNode"
    THEN [raised |-> FALSE,
          filters |-> BeamFiltersFromPbs(<<filter_node.nodes[1]>>)]
    ELSE [raised |-> TRUE, filters |-> <<>>]

Descending == 2    \* datastore_query.PropertyOrder.DESCENDING
Ascending == 1     \* datastore_query.PropertyOrder.ASCENDING

\* '%s%s' % ('-' if o.direction == o.DESCENDING else '', o.prop)
SignedName(o) ==
    IF o.direction = Descending THEN "-" \o o.prop ELSE "" \o o.prop

RECURSIVE SignedNames(_)
SignedNames(orders) ==
    IF orders = <<>> THEN <<>>
    ELSE <<SignedName(Head(orders))>> \o SignedNames(Tail(orders))

_get_beam_order_from_ndb_order(order) ==
    LET orders == IF order.type = "CompositeOrder" THEN order.orders
                  ELSE <<order.orders[1]>>
    IN  SignedNames(orders)

\* A rule that gives every kind-less query the key order.
ForcedKeyOrder(kind, order) ==
    IF kind = None THEN Some(<<"__key__">>) ELSE order

\* A rule that leaves the order as the native query gave it.
NoDefaultOrder(kind, order) == order

\* if kind is None and order is None: order = ('__key__',)
DefaultOrder(kind, order) ==
    IF kind = None /\ order = None THEN Some(<<"__key__">>) ELSE order

\* The whole of get_beam_query_from_ndb_query(nq): the TypeError of the
\* filter flattening, or the beam query.
ConvertResult(nq) ==
    LET flat == IF nq.filters # None
                THEN _get_beam_filters_from_ndb_filter_node(Val(nq.filters))
                ELSE [raised |-> FALSE, filters |-> <<>>]
        order == IF nq.orders # None
                 THEN Some(_get_beam_order_from_ndb_order(Val(nq.orders)))
                 ELSE None
    IN  IF flat.raised THEN [raised |-> TRUE, query |-> None]
        ELSE [raised |-> FALSE,
              query |-> Some([kind |-> nq.kind, namespace |-> nq.namespace,
                              filters |-> IF nq.filters # None
                                          THEN Some(flat.filters) ELSE None,
                              order |-> DefaultOrder(nq.kind, order),
                              limit |-> None])]

-----------------------------------------------------------------------------
(* The entity converter. *)

\* datastore_services.Model._kind_map: the kinds with a registered class.
RegisteredKinds == {"A", "B"}

\* key.flat(): (kind1, id1, ..., kindN, idN)
RECURSIVE Flat(_)
Flat(pairs) ==
    IF pairs = <<>> THEN <<>>
    ELSE <<Head(pairs)[1], Head(pairs)[2]>> \o Flat(Tail(pairs))

\* model._to_dict(): every property, by name.
ToDict(m) == [score |-> m.score]

\* A conversion that keeps only the first (kind, id) of the key's path.
BeamEntityOfRootKey(m) ==
    [key |-> [path |-> Flat(<<Head(m.key.pairs)>>), project |-> "oppia"],
     properties |-> ToDict(m)]

\* get_beam_entity_from_model(m)
BeamEntityFromModel(m) ==
    [key |-> [path |-> Flat(m.key.pairs), project |-> "oppia"],
     properties |-> ToDict(m)]

\* get_model_from_beam_entity(e): the KindError of _lookup_model, or the model
\* model_class(id=model_id, **properties), whose key has no parent and the
\* default namespace.
ModelFromBeamEntity(e) ==
    LET path == e.key.path
        model_id == path[Len(path)]
        kind == path[Len(path) - 1]
    IN  IF kind \notin RegisteredKinds
        THEN [raised |-> TRUE, model |-> None]
        ELSE [raised |-> FALSE,
              model |-> Some([key |-> [namespace |-> "",
                                       pairs |-> <<<<kind, model_id>>>>],
                              score |-> e.properties.score])]

-----------------------------------------------------------------------------
(* The values the calls are made with. *)

Ids == {1, 2}
Scores == {1, 2, 3}

NewKey(namespace, pairs) == [namespace |-> namespace, pairs |-> pairs]
NewModel(kind, id, namespace, score) ==
    [key |-> NewKey(namespace, <<<<kind, id>>>>), score |-> score]

\* Models of two kinds and two namespaces, some equal on id, some on score.
Models ==
    {NewModel("A", 1, "", 1), NewModel("A", 2, "", 2), NewModel("A", 1, "ns", 3),
     NewModel("B", 1, "", 2), NewModel("B", 2, "ns", 2)}

\* Models of one kind, with ties on id, on score and on both.
SortModels ==
    {NewModel("A", 1, "", 1), NewModel("A", 2, "", 1), NewModel("A", 3, "", 2),
     NewModel("A", 1, "ns", 2), NewModel("A", 2, "ns", 1),
     NewModel("A", 3, "ns", 2)}

\* The lists of at most n distinct members of S.
RECURSIVE ListsUpTo(_, _)
ListsUpTo(S, n) ==
    IF n = 0 THEN {<<>>}
    ELSE LET shorter == ListsUpTo(S, n - 1)
         IN  shorter \cup
             {Append(l, m) : <<l, m>> \in
                  {<<l, m>> \in shorter \X S :
                       Len(l) = n - 1 /\ \A i \in 1..Len(l) : l[i] # m}}

\* The sequences of at most n members of S.
RECURSIVE SeqsUpTo(_, _)
SeqsUpTo(S, n) ==
    IF n = 0 THEN {<<>>}
    ELSE LET shorter == SeqsUpTo(S, n - 1)
         IN  shorter \cup
             {Append(l, m) : <<l, m>> \in
                  {<<l, m>> \in shorter \X S : Len(l) = n - 1}}

Optional(S) == {None} \cup {Some(v) : v \in S}

NewQuery(kind, namespace, filters, order, limit) ==
    [kind |-> kind, namespace |-> namespace, filters |-> filters,
     order |-> order, limit |-> limit]

SignedProperties == {"id", "-id", "score", "-score", "__key__", "-__key__"}

\* (property, operator, value) triples: every supported operator and one
\* that is not, on an int property, on the id and on the key.
FilterTriples ==
    {<<"score", comp, 2>> : comp \in SupportedOperators \cup {"!="}}
        \cup {<<"id", "=", 1>>,
              <<"__key__", ">=", NewKey("", <<<<"A", 2>>>>)>>}

\* Queries that differ in kind, order and limit, with at most one filter.
Queries ==
    {NewQuery(kind, None, filters, order, limit) :
        kind \in Optional({"A"}),
        filters \in Optional({<<>>, <<<<"score", ">=", 2>>>>}),
        order \in Optional({<<>>, <<"__key__">>, <<"id">>, <<"-__key__">>,
                            <<"__key__", "id">>, <<"-score", "id">>}),
        limit \in Optional(0..MaxLimit)}

\* Queries that differ in kind, namespace and filters; the kind-less ones
\* carry the key order or none.
FilterQueries ==
    {NewQuery(kind, namespace, filters, order, None) :
        kind \in Optional({"", "A"}),
        namespace \in Optional({"", "ns"}),
        filters \in Optional(SeqsUpTo(FilterTriples, MaxFilters)),
        order \in {None, Some(<<"__key__">>)}}

\* Queries of one kind that differ in order.
SortQueries ==
    {NewQuery(Some("A"), None, None, order, None) :
        order \in Optional(SeqsUpTo(SignedProperties, MaxOrder))}

\* One comparison of an ndb filter tree.
Comparisons ==
    {[name |-> "score", opsymbol |-> c, value |-> 2] : c \in SupportedOperators}

FilterNode(c) == [type |-> "FilterNode", nodes |-> <<c>>]
ConjunctionNode(cs) == [type |-> "ConjunctionNode", nodes |-> cs]
DisjunctionNode(cs) == [type |-> "DisjunctionNode", nodes |-> cs]

\* What ndb builds for prop != v and for prop.IN([v, w]): disjunctions.
NotEqual(name, v) ==
    DisjunctionNode(<<[name |-> name, opsymbol |-> "<", value |-> v],
                      [name |-> name, opsymbol |-> ">", value |-> v]>>)
MemberOf(name, v, w) ==
    DisjunctionNode(<<[name |-> name, opsymbol |-> "=", value |-> v],
                      [name |-> name, opsymbol |-> "=", value |-> w]>>)

FilterNodes ==
    {FilterNode(c) : c \in Comparisons}
        \cup {ConjunctionNode(cs) :
                 cs \in {s \in SeqsUpTo(Comparisons, MaxFilters) : Len(s) >= 2}}
        \cup {NotEqual("score", 2), MemberOf("score", 1, 2),
              DisjunctionNode(<<[name |-> "score", opsymbol |-> "<", value |-> 2],
                                [name |-> "id", opsymbol |-> "=", value |-> 1]>>)}

PropertyOrders ==
    [prop : {"id", "__key__"}, direction : {Ascending, Descending}]

NdbOrders ==
    {[type |-> "PropertyOrder", orders |-> <<o>>] : o \in PropertyOrders}
        \cup {[type |-> "CompositeOrder", orders |-> os] :
                 os \in {s \in SeqsUpTo(PropertyOrders, MaxOrder) : Len(s) >= 2}}

NdbQueries ==
    [kind : Optional({"A"}), namespace : Optional({"ns"}),
     filters : Optional(FilterNodes), orders : Optional(NdbOrders)]

\* Models with and without a parent, of registered and unregistered kinds.
KeyedModels ==
    {[key |-> NewKey(ns, parent \o <<<<kind, id>>>>), score |-> s] :
        kind \in {"A", "B", "C"}, id \in Ids, ns \in {"", "ns"}, s \in Scores,
        parent \in {<<>>} \cup {<<<<k, i>>>> : k \in {"A", "B", "C"}, i \in Ids}}

-----------------------------------------------------------------------------
(* The caller. *)

Idle ==
    /\ ndb_query = None
    /\ model = None
    /\ beam_entity = None
    /\ new_model = None

InitApply(Qs, Ls) ==
    /\ pc = "apply"
    /\ query \in {Some(q) : q \in Qs}
    /\ model_list \in Ls
    /\ input_list = model_list
    /\ outcome = "none"
    /\ Idle

Init == InitApply(Queries, ListsUpTo(Models, MaxLen))
InitFilter == InitApply(FilterQueries, ListsUpTo(Models, MaxLen))
InitSort == InitApply(SortQueries, ListsUpTo(SortModels, MaxSortLen))

\* apply_query_to_models(query, model_list)
apply_query_to_models ==
    /\ pc = "apply"
    /\ LET r == ApplyResult(Val(query), model_list)
       IN  /\ model_list' = r.list
           /\ outcome' = r.outcome
    /\ pc' = "done"
    /\ UNCHANGED <<query, input_list, ndb_query, model, beam_entity, new_model>>

InitConvert ==
    /\ pc = "convert"
    /\ ndb_query \in {Some(nq) : nq \in NdbQueries}
    /\ query = None
    /\ model_list \in {<<>>, <<NewModel("A", 1, "ns", 3), NewModel("B", 1, "", 2)>>}
    /\ input_list = model_list
    /\ outcome = "none"
    /\ model = None
    /\ beam_entity = None
    /\ new_model = None

InitEntity ==
    /\ pc = "to_beam"
    /\ model \in {Some(m) : m \in KeyedModels}
    /\ beam_entity = None
    /\ new_model = None
    /\ outcome = "none"
    /\ query = None
    /\ ndb_query = None
    /\ model_list = <<>>
    /\ input_list = <<>>

\* query = get_beam_query_from_ndb_query(ndb_query)
get_beam_query_from_ndb_query ==
    /\ pc = "convert"
    /\ LET r == ConvertResult(Val(ndb_query))
       IN  IF r.raised
           THEN /\ outcome' = "TypeError"
                /\ pc' = "done"
                /\ UNCHANGED query
           ELSE /\ query' = r.query
                /\ pc' = "apply"
                /\ UNCHANGED outcome
    /\ UNCHANGED <<model_list, input_list, ndb_query, model, beam_entity,
                   new_model>>

\* beam_entity = get_beam_entity_from_model(model)
get_beam_entity_from_model ==
    /\ pc = "to_beam"
    /\ beam_entity' = Some(BeamEntityFromModel(Val(model)))
    /\ pc' = "from_beam"
    /\ UNCHANGED <<query, model_list, input_list, outcome, ndb_query, model,
                   new_model>>

\* new_model = get_model_from_beam_entity(beam_entity)
get_model_from_beam_entity ==
    /\ pc = "from_beam"
    /\ LET r == ModelFromBeamEntity(Val(beam_entity))
       IN  /\ new_model' = r.model
           /\ outcome' = IF r.raised THEN "KindError" ELSE "ok"
    /\ pc' = "done"
    /\ UNCHANGED <<query, model_list, input_list, ndb_query, model, beam_entity>>

Next == apply_query_to_models
NextConvert == get_beam_query_from_ndb_query \/ apply_query_to_models
NextEntity == get_beam_entity_from_model \/ get_model_from_beam_entity

Spec == Init /\ [][Next]_vars
SpecFilter == InitFilter /\ [][Next]_vars
SpecSort == InitSort /\ [][Next]_vars
SpecConvert == InitConvert /\ [][NextConvert]_vars
SpecEntity == InitEntity /\ [][NextEntity]_vars

-----------------------------------------------------------------------------
(* What the claims speak of, stated apart from the code's own steps. *)

Q == Val(query)

InvalidCombinationError == "ValueError: Query(kind=None) must also have order"
UnsupportedOperatorError == "ValueError: Unsupported comparison operator"

\* A kind or namespace is present when it is set to a non-empty string.
Present(o) == o # None /\ Val(o) # ""

KindOf(m) == m.key.pairs[Len(m.key.pairs)][1]
IdOf(m) == m.key.pairs[Len(m.key.pairs)][2]

\* The value a filter or an order key names: the key's id for 'id', the key
\* for '__key__', the attribute otherwise.
PropertyOf(m, name) ==
    CASE name = "id" -> IdOf(m)
      [] name = "__key__" -> m.key
      [] OTHER -> m[name]

\* m satisfies the filter (name, comp, value); no model satisfies a filter
\* whose operator is not supported.
Satisfies(m, f) ==
    LET v == PropertyOf(m, f[1])
    IN  CASE f[2] = "<" -> ValueLt(f[1], v, f[3])
          [] f[2] = "<=" -> ~ValueLt(f[1], f[3], v)
          [] f[2] = "=" -> v = f[3]
          [] f[2] = ">=" -> ~ValueLt(f[1], v, f[3])
          [] f[2] = ">" -> ValueLt(f[1], f[3], v)
          [] OTHER -> FALSE

InScope(q, m) ==
    /\ Present(q.kind) => KindOf(m) = Val(q.kind)
    /\ Present(q.namespace) => m.key.namespace = Val(q.namespace)

Matches(q, m) ==
    /\ InScope(q, m)
    /\ q.filters # None =>
           \A i \in 1..Len(Val(q.filters)) : Satisfies(m, Val(q.filters)[i])

HasUnsupportedOperator(q) ==
    /\ q.filters # None
    /\ \E i \in 1..Len(Val(q.filters)) :
           Val(q.filters)[i][2] \notin SupportedOperators

\* The place of m in the list l of distinct models.
Pos(l, m) == CHOOSE i \in 1..Len(l) : l[i] = m

\* a comes strictly before b in the lexicographic order of the signed keys.
RECURSIVE LexBefore(_, _, _)
LexBefore(a, b, order) ==
    IF order = <<>> THEN FALSE
    ELSE LET descending == Head(order) \in {"-id", "-score", "-__key__"}
             name == CASE Head(order) \in {"id", "-id"} -> "id"
                       [] Head(order) \in {"score", "-score"} -> "score"
                       [] OTHER -> "__key__"
             va == PropertyOf(a, name)
             vb == PropertyOf(b, name)
         IN  IF va = vb THEN LexBefore(a, b, Tail(order))
             ELSE IF descending THEN ValueLt(name, vb, va)
             ELSE ValueLt(name, va, vb)

\* out is before, sorted lexicographically on the signed keys and stably.
IsStableLexSort(before, out, order) ==
    /\ Len(out) = Len(before)
    /\ \A i \in 1..Len(before) : \E j \in 1..Len(out) : out[j] = before[i]
    /\ \A i, j \in 1..Len(out) :
           i < j =>
               \/ LexBefore(out[i], out[j], order)
               \/ /\ ~LexBefore(out[j], out[i], order)
                  /\ Pos(before, out[i]) < Pos(before, out[j])

Take(l, n) == IF n >= Len(l) THEN l ELSE SubSeq(l, 1, n)

-----------------------------------------------------------------------------
(* The claims. *)

\* C1: a query whose kind is None and whose order is not exactly
\* ('__key__',) makes apply_query_to_models raise the invalid-combination
\* ValueError, and model_list is left as it was.
C1_InvalidCombinationRejected ==
    (pc = "done" /\ Q.kind = None /\ Q.order # Some(<<"__key__">>))
        => (outcome = InvalidCombinationError /\ model_list = input_list)

C1_Witness ==
    /\ pc = "done"
    /\ Q.kind = None
    /\ Q.order = Some(<<"__key__", "id">>)
    /\ Q.limit = Some(1)
    /\ TruthySeq(Q.filters)
    /\ Len(input_list) = 2
    /\ outcome = InvalidCombinationError

\* C2: after a successful apply_query_to_models with no limit and no order,
\* model_list holds exactly the input models of the query's kind and
\* namespace (where present) that satisfy every filter, each once and in
\* their input order.
C2_FilterConjunction ==
    (pc = "done" /\ outcome = "ok" /\ Q.limit = None /\ Q.order = None)
        => model_list = SelectSeq(input_list, LAMBDA m : Matches(Q, m))

C2_Witness ==
    /\ pc = "done"
    /\ outcome = "ok"
    /\ Q.limit = None
    /\ Q.order = None
    /\ Q.kind = Some("A")
    /\ Q.namespace = Some("")
    /\ Q.filters = Some(<<<<"score", "<=", 2>>, <<"id", "=", 1>>>>)
    /\ Len(input_list) = 2
    /\ Len(model_list) = 1

\* C3: the sort step (one stable sort per key, last key first) leaves the
\* list as one lexicographic multi-key stable sort would: ordered by the
\* first key, ties by the next, descending where the key has a leading '-',
\* and models equal on every key in their order from before the step.
C3_StableLexicographicSort ==
    (pc = "done" /\ outcome = "ok" /\ Q.order # None)
        => IsStableLexSort(SelectSeq(input_list, LAMBDA m : Matches(Q, m)),
                           model_list, Val(Q.order))

C3_Witness ==
    /\ pc = "done"
    /\ outcome = "ok"
    /\ Q.order = Some(<<"-score", "id">>)
    /\ Len(model_list) = 3
    /\ model_list # input_list
    /\ model_list[1].score = model_list[2].score
    /\ IdOf(model_list[1]) = IdOf(model_list[2])
    /\ model_list[3].score < model_list[2].score

\* C4: with a limit N >= 0 (0 included) a successful apply_query_to_models
\* leaves at most N models, the first N of the filtered and sorted list.
C4_LimitTruncates ==
    (pc = "done" /\ outcome = "ok" /\ Q.limit # None)
        => /\ Len(model_list) <= Val(Q.limit)
           /\ model_list =
                  Take(ApplyResult([Q EXCEPT !.limit = None], input_list).list,
                       Val(Q.limit))

\* C5: a query that passes validation and has a filter with an unsupported
\* operator makes apply_query_to_models raise the unsupported-operator
\* ValueError, whatever the list and wherever the filter stands.
C5_UnsupportedOperatorRejected ==
    (pc = "done" /\ ~InvalidCombination(Q) /\ HasUnsupportedOperator(Q))
        => outcome = UnsupportedOperatorError

\* C10: when the predicate stage raises, model_list holds exactly the input
\* models of the query's kind and namespace, in input order: none removed
\* by a filter, not sorted, not truncated.
C10_PredicateFailureLeavesScopedList ==
    (pc = "done" /\ outcome = UnsupportedOperatorError)
        => model_list = SelectSeq(input_list, LAMBDA m : InScope(Q, m))

C10_Witness ==
    /\ pc = "done"
    /\ outcome = UnsupportedOperatorError
    /\ Q.kind = Some("A")
    /\ Q.filters = Some(<<<<"score", ">=", 2>>, <<"score", "!=", 2>>>>)
    /\ Len(input_list) = 2
    /\ Len(model_list) = 1
    /\ model_list[1] = input_list[2]

-----------------------------------------------------------------------------
(* The claims about the converters. *)

NQ == Val(ndb_query)

Converted == ndb_query # None /\ pc # "convert"

\* The signed name of one ordering key, read off a table.
Rendered(o) ==
    CASE o.prop = "id" /\ o.direction = Descending -> "-id"
      [] o.prop = "id" /\ o.direction = Ascending -> "id"
      [] o.prop = "__key__" /\ o.direction = Descending -> "-__key__"
      [] o.prop = "__key__" /\ o.direction = Ascending -> "__key__"

\* C6: a filter tree that is neither one comparison nor a conjunction of
\* comparisons makes get_beam_query_from_ndb_query raise the TypeError and
\* return no query; one comparison or a conjunction of n comparisons yields
\* one (property, operator, value) triple per comparison, in a supported
\* operator, none dropped.
C6_FilterFlattening ==
    (Converted /\ NQ.filters # None)
        => LET node == Val(NQ.filters)
           IN  IF node.type \in {"FilterNode", "ConjunctionNode"}
               THEN /\ query # None
                    /\ Q.filters # None
                    /\ Len(Val(Q.filters)) = Len(node.nodes)
                    /\ \A i \in 1..Len(node.nodes) :
                           /\ Val(Q.filters)[i] =
                                  <<node.nodes[i].name, node.nodes[i].opsymbol,
                                    node.nodes[i].value>>
                           /\ Val(Q.filters)[i][2] \in SupportedOperators
               ELSE /\ outcome = "TypeError"
                    /\ query = None
                    /\ pc = "done"

C6_Witness ==
    /\ Converted
    /\ NQ.filters = Some(NotEqual("score", 2))
    /\ outcome = "TypeError"
    /\ query = None

\* C7: the flat order is the native order's keys in their priority, each
\* with a leading '-' when descending, also when kind is None; ('__key__',)
\* when there is no native order and kind is None; absent when there is no
\* native order and a kind. kind and namespace are copied.
C7_OrderRule ==
    (Converted /\ query # None)
        => /\ Q.kind = NQ.kind
           /\ Q.namespace = NQ.namespace
           /\ IF NQ.orders # None
              THEN /\ Q.order # None
                   /\ Len(Val(Q.order)) = Len(Val(NQ.orders).orders)
                   /\ \A i \in 1..Len(Val(Q.order)) :
                          Val(Q.order)[i] = Rendered(Val(NQ.orders).orders[i])
              ELSE IF NQ.kind = None
              THEN Q.order = Some(<<"__key__">>)
              ELSE Q.order = None

C7_Witness ==
    /\ Converted
    /\ query # None
    /\ NQ.kind = None
    /\ NQ.orders # None
    /\ Val(NQ.orders).type = "CompositeOrder"
    /\ Q.order = Some(<<"-id", "__key__">>)

\* C8 as stated: every query the converter returns has, when its kind is
\* absent, exactly the order ('__key__',), and so passes the validation of
\* apply_query_to_models.
C8_EveryConvertedQueryNormalized ==
    (Converted /\ query # None)
        => /\ Q.kind = None => Q.order = Some(<<"__key__">>)
           /\ outcome # InvalidCombinationError

\* C8 as amended: a query converted from a native query without an order
\* has, when its kind is absent, exactly the order ('__key__',) and passes
\* the validation; a kind-less native query with an order keeps it, and
\* passes the validation only when that order is exactly ('__key__',).
C8_DefaultedQueryNormalized ==
    (Converted /\ query # None)
        => /\ NQ.orders = None =>
                  /\ Q.kind = None => Q.order = Some(<<"__key__">>)
                  /\ outcome # InvalidCombinationError
           /\ (pc = "done" /\ NQ.orders # None /\ Q.kind = None) =>
                  (outcome = InvalidCombinationError
                       <=> Q.order # Some(<<"__key__">>))

C8_Witness ==
    /\ Converted
    /\ pc = "done"
    /\ query # None
    /\ NQ.kind = None
    /\ NQ.orders = None
    /\ Q.order = Some(<<"__key__">>)
    /\ outcome = "ok"
    /\ Len(input_list) = 2
    /\ model_list # input_list

\* The state after the round trip of a model e.
RoundTripDone ==
    (pc = "done" /\ model # None)
        => IF KindOf(Val(model)) \in RegisteredKinds
           THEN /\ outcome = "ok"
                /\ new_model # None
                /\ KindOf(Val(new_model)) = KindOf(Val(model))
                /\ IdOf(Val(new_model)) = IdOf(Val(model))
                /\ Val(new_model).score = Val(model).score
           ELSE /\ outcome = "KindError"
                /\ new_model = None

\* C9: for a model e of a registered kind,
\* get_model_from_beam_entity(get_beam_entity_from_model(e)) has e's kind,
\* id and property values, and neither conversion modifies e; when the flat
\* key's kind is not registered the conversion fails and returns no model.
C9_RoundTrip ==
    /\ []RoundTripDone
    /\ [][model' = model]_vars

C9_Witness ==
    /\ pc = "done"
    /\ model # None
    /\ Len(Val(model).key.pairs) = 2
    /\ Val(model).key.pairs[1] = <<"C", 2>>
    /\ Val(model).key.pairs[2] = <<"B", 1>>
    /\ Val(model).key.namespace = "ns"
    /\ outcome = "ok"
    /\ KindOf(Val(new_model)) = "B"

====
